---- MODULE Spec2Model ----
(***************************************************************************)
(* The OAuth 2.1 core of x-search-mcp (src/oauth.py) and the ASGI gate in  *)
(* front of it (src/server.py, authed_app).                                *)
(*                                                                         *)
(* Python strings that come from a request or from secrets.token_hex are   *)
(* sequences of one-character strings, so that prefix tests and            *)
(* replacements act on characters.  Python's None is the one-element       *)
(* sequence None below, which is no character string.  ASGI scope types,   *)
(* paths, methods and the error codes of the responses are program         *)
(* literals and are kept as TLA+ strings.                                  *)
(*                                                                         *)
(* Threads: the asyncio event loop runs one handler at a time between two  *)
(* awaits; the cleanup Timer runs in a thread of its own and interleaves   *)
(* with the handlers at every access to the shared dict.                   *)
(***************************************************************************)
EXTENDS Integers, Sequences, FiniteSets, TLC

VARIABLES
    config,         \* the dict given to setup_oauth (immutable after Init)
    auth_codes,     \* dict: code -> record (oauth.py:23)
    access_tokens,  \* set of issued access tokens (oauth.py:24)
    rng,            \* number of values secrets.token_hex has produced
    now,            \* time.time()
    pending,        \* /token handlers suspended in `await request.body()`
    cur,            \* frame of the handler the event loop runs, or ran last
    sw,             \* frame of the cleanup timer thread
    issued,         \* history: code -> the record stored when it was issued
    minted,         \* history: <<code, access_token>> of every exchange
    client          \* what the clients of this run send (fixed by Init)

vars == <<config, auth_codes, access_tokens, rng, now, pending, cur, sw, issued,
          minted, client>>

----------------------------------------------------------------------------
(* Bounds *)

MaxCodes == 1        \* authorization codes issued in one run
MaxTime == 600       \* the clock stops advancing here
MaxPending == 2      \* /token requests in flight at once
TokenBytes == 1      \* token_hex(TokenBytes) stands for token_hex(32)

(* Program constants *)

CodeLifetime == 300
SweepInterval == 60

----------------------------------------------------------------------------
(* Strings *)

None == <<"None">>

\* Python truthiness of an optional string
Truthy(s) == s # None /\ s # <<>>

\* str.startswith
StartsWith(s, p) == Len(s) >= Len(p) /\ SubSeq(s, 1, Len(p)) = p

\* index of the first occurrence of old in s, 0 when there is none
RECURSIVE FindFrom(_, _, _)
FindFrom(s, old, i) ==
    IF i + Len(old) - 1 > Len(s) THEN 0
    ELSE IF SubSeq(s, i, i + Len(old) - 1) = old THEN i
    ELSE FindFrom(s, old, i + 1)

\* str.replace(old, "", 1)
ReplaceFirst(s, old) ==
    LET i == FindFrom(s, old, 1)
    IN  IF i = 0 THEN s
        ELSE SubSeq(s, 1, i - 1) \o SubSeq(s, i + Len(old), Len(s))

HexDigits == <<"0", "1", "2", "3", "4", "5", "6", "7",
               "8", "9", "a", "b", "c", "d", "e", "f">>

\* n written with len hexadecimal digits
RECURSIVE ToHex(_, _)
ToHex(n, len) ==
    IF len = 0 THEN <<>>
    ELSE Append(ToHex(n \div 16, len - 1), HexDigits[(n % 16) + 1])

\* secrets.token_hex: the i-th value drawn.  A 256-bit random value is taken
\* never to repeat, so the values drawn are pairwise different.
TokenHex(i) == ToHex(i, 2 * TokenBytes)

\* position of a key in the dict's insertion order: keys are inserted in
\* the order they are drawn
RECURSIVE HexVal(_)
HexVal(s) ==
    IF s = <<>> THEN 0
    ELSE 16 * HexVal(SubSeq(s, 1, Len(s) - 1))
         + (CHOOSE d \in 0..15 : HexDigits[d + 1] = s[Len(s)])

B64Sha256Empty == <<"4","7","D","E","Q","p","j","8","H","B","S","a","-","_","T","I","m","W","-","5","J","C","e","u","Q","e","R","k","m","5","N","M","p","J","W","Z","G","3","h","S","u","F","U">>
B64Sha256Abc == <<"u","n","g","W","v","4","8","B","z","-","p","B","Q","U","D","e","X","a","4","i","I","7","A","D","Y","a","O","W","F","3","q","c","t","B","D","_","Y","f","I","A","F","a","0">>
B64Sha256Abd == <<"p","S","0","V","n","y","Y","r","L","G","3","b","c","k","p","h","h","A","v","v","w","2","6","z","D","I","i","H","e","k","A","w","t","l","y","-","h","i","m","E","S","c","k">>

\* base64.urlsafe_b64encode(hashlib.sha256(v.encode()).digest()).rstrip(b"=")
\* on the verifiers the model supplies
Sha256B64(v) ==
    CASE v = <<>> -> B64Sha256Empty
      [] v = <<"a", "b", "c">> -> B64Sha256Abc
      [] v = <<"a", "b", "d">> -> B64Sha256Abd

----------------------------------------------------------------------------
(* urllib.parse, as authorize() uses it (oauth.py:79-85) *)

\* s.split(sep, 1): <<s>> when sep is not in s, else <<before, after>>
SplitOnce(s, sep) ==
    LET i == FindFrom(s, <<sep>>, 1)
    IN  IF i = 0 THEN <<s>>
        ELSE <<SubSeq(s, 1, i - 1), SubSeq(s, i + 1, Len(s))>>

\* s.split(sep)
RECURSIVE Split(_, _)
Split(s, sep) ==
    LET nv == SplitOnce(s, sep)
    IN  IF Len(nv) = 1 THEN <<s>> ELSE <<nv[1]>> \o Split(nv[2], sep)

\* sep.join(parts)
RECURSIVE Join(_, _)
Join(parts, sep) ==
    IF parts = <<>> THEN <<>>
    ELSE IF Len(parts) = 1 THEN parts[1]
    ELSE parts[1] \o <<sep>> \o Join(Tail(parts), sep)

\* The characters of the model that quote_plus does not leave as they are,
\* with the two hexadecimal digits of their code.  Every other character of
\* the model is a letter or a digit.
PercentCodes ==
    << <<" ", "2", "0">>, <<"#", "2", "3">>, <<"%", "2", "5">>, <<"&", "2", "6">>,
       <<"+", "2", "B">>, <<"/", "2", "F">>, <<":", "3", "A">>, <<"=", "3", "D">>,
       <<"?", "3", "F">> >>

\* urllib.parse.quote_plus
RECURSIVE QuotePlus(_)
QuotePlus(s) ==
    IF s = <<>> THEN <<>>
    ELSE LET ch == Head(s)
             hit == { i \in 1..Len(PercentCodes) : PercentCodes[i][1] = ch }
         IN  (IF ch = " " THEN <<"+">>
              ELSE IF hit = {} THEN <<ch>>
              ELSE LET i == CHOOSE j \in hit : TRUE
                   IN  <<"%", PercentCodes[i][2], PercentCodes[i][3]>>)
             \o QuotePlus(Tail(s))

\* urllib.parse.unquote: a "%" that two digits of a known code do not follow
\* stays
RECURSIVE Unquote(_)
Unquote(s) ==
    IF s = <<>> THEN <<>>
    ELSE LET hit == IF Head(s) = "%" /\ Len(s) >= 3
                    THEN { i \in 1..Len(PercentCodes) :
                             /\ PercentCodes[i][2] = s[2]
                             /\ PercentCodes[i][3] = s[3] }
                    ELSE {}
         IN  IF hit = {} THEN <<Head(s)>> \o Unquote(Tail(s))
             ELSE <<PercentCodes[CHOOSE j \in hit : TRUE][1]>>
                  \o Unquote(SubSeq(s, 4, Len(s)))

\* s.replace("+", " ")
PlusToSpace(s) == [i \in 1..Len(s) |-> IF s[i] = "+" THEN " " ELSE s[i]]

\* urllib.parse.parse_qsl(qs, keep_blank_values): the <<name, value>> pairs
\* of a query string, in its order
RECURSIVE ParseFields(_, _)
ParseFields(fields, keep_blank_values) ==
    IF fields = <<>> THEN <<>>
    ELSE LET nv == SplitOnce(Head(fields), "=")
             rest == ParseFields(Tail(fields), keep_blank_values)
         IN  IF Head(fields) = <<>> THEN rest
             ELSE IF Len(nv) = 1 /\ ~keep_blank_values THEN rest
             ELSE LET value == IF Len(nv) = 1 THEN <<>> ELSE nv[2]
                  IN  IF value # <<>> \/ keep_blank_values
                      THEN << <<Unquote(PlusToSpace(nv[1])),
                                Unquote(PlusToSpace(value))>> >> \o rest
                      ELSE rest

ParseQsl(qs, keep_blank_values) == ParseFields(Split(qs, "&"), keep_blank_values)

\* the values a sequence of pairs has for a name, in their order
RECURSIVE ValuesOf(_, _)
ValuesOf(pairs, name) ==
    IF pairs = <<>> THEN <<>>
    ELSE (IF Head(pairs)[1] = name THEN <<Head(pairs)[2]>> ELSE <<>>)
         \o ValuesOf(Tail(pairs), name)

\* the names of a sequence of pairs, each once, in the order they first occur
RECURSIVE NamesOf(_)
NamesOf(pairs) ==
    IF pairs = <<>> THEN <<>>
    ELSE LET n == pairs[Len(pairs)][1]
             before == NamesOf(SubSeq(pairs, 1, Len(pairs) - 1))
         IN  IF \E i \in 1..Len(before) : before[i] = n THEN before
             ELSE Append(before, n)

\* urllib.parse.parse_qs(qs): a dict name -> list of values, as the sequence
\* of its items in insertion order
ParseQs(qs) ==
    LET pairs == ParseQsl(qs, FALSE)
        names == NamesOf(pairs)
    IN  [i \in 1..Len(names) |-> <<names[i], ValuesOf(pairs, names[i])>>]

\* d[key] = value on a dict kept as the sequence of its items
SetItem(d, key, value) ==
    IF \E i \in 1..Len(d) : d[i][1] = key
    THEN [i \in 1..Len(d) |-> IF d[i][1] = key THEN <<key, value>> ELSE d[i]]
    ELSE Append(d, <<key, value>>)

\* urllib.parse.urlencode({k: v[0] for k, v in qs.items()})
UrlEncodeFirst(qs) ==
    Join([i \in 1..Len(qs) |-> QuotePlus(qs[i][1]) \o <<"=">> \o QuotePlus(qs[i][2][1])],
         "&")

\* urllib.parse.urlparse(url): the fragment is what follows the first "#",
\* the query what follows the first "?" before it; base is scheme, netloc
\* and path, which urlunparse puts back as they were
UrlParse(url) ==
    LET f == SplitOnce(url, "#")
        q == SplitOnce(f[1], "?")
    IN  [base |-> q[1],
         query |-> IF Len(q) = 1 THEN <<>> ELSE q[2],
         fragment |-> IF Len(f) = 1 THEN <<>> ELSE f[2]]

\* urllib.parse.urlunparse(parsed)
UrlUnparse(parsed) ==
    parsed.base
    \o (IF parsed.query # <<>> THEN <<"?">> \o parsed.query ELSE <<>>)
    \o (IF parsed.fragment # <<>> THEN <<"#">> \o parsed.fragment ELSE <<>>)

----------------------------------------------------------------------------
(* Configuration and the inputs of the model *)

ClientId == <<"c", "i", "d">>
ClientSecret == <<"s", "e", "c">>
PublicUrl == <<"h", ":", "/", "/", "m">>
StaticToken == <<"s", "t", "k">>

OtherId == <<"c", "i", "x">>
OtherSecret == <<"s", "e", "x">>
UriA == <<"h", ":", "/", "a", "?", "x", "=", "1">>
UriB == <<"h", ":", "/", "b">>
Abc == <<"a", "b", "c">>
Abd == <<"a", "b", "d">>
S1 == <<"s", "1">>
S256 == <<"S", "2", "5", "6">>
Plain == <<"p", "l", "a", "i", "n">>
LowerS256 == <<"s", "2", "5", "6">>
Code == <<"c", "o", "d", "e">>
AuthorizationCode == <<"a", "u", "t", "h", "o", "r", "i", "z", "a", "t", "i", "o", "n", "_", "c", "o", "d", "e">>
Password == <<"p", "a", "s", "s", "w", "o", "r", "d">>
Bearer == <<"B", "e", "a", "r", "e", "r", " ">>
LowerBearer == <<"b", "e", "a", "r", "e", "r", " ">>
StateKey == <<"s", "t", "a", "t", "e">>
UriRepeat == <<"h", ":", "/", "a", "?", "x", "=", "1", "&", "x", "=", "2">>
UriBlank == <<"h", ":", "/", "a", "?", "x", "=", "1", "&", "y", "=">>
UriCode == <<"h", ":", "/", "a", "?", "c", "o", "d", "e", "=", "9", "&", "x", "=", "1">>
UriFragment == <<"h", ":", "/", "b", "#", "f">>
StateAmp == <<"s", "&", "1">>

\* the config server.py passes to setup_oauth: it exits at start-up unless
\* MCP_AUTH_TOKEN and the three OAuth settings are non-empty
Config ==
    [client_id |-> ClientId, client_secret |-> ClientSecret,
     public_url |-> PublicUrl, static_token |-> StaticToken]

\* the code_challenge / code_challenge_method pairs a client sends
PkceParams ==
    { <<None, None>>, <<Abc, None>>, <<Abc, Plain>>, <<B64Sha256Abc, S256>>,
      <<B64Sha256Empty, S256>>, <<Abc, LowerS256>>, <<<<>>, S256>>, <<None, S256>> }

\* The clients of one run.  vary names the part of the requests that ranges
\* over all its values in the run, the rest is as a well-behaved client sends
\* it; pkce is the challenge and method the run's /authorize requests carry;
\* span is how long the clients keep sending (a run of span 0 is over before
\* the first cleanup timer fires).  The clients of "sweep" ask for codes and
\* never redeem one; their run lasts one code lifetime longer than the
\* others, to see what becomes of its last codes.
Clients ==
    { [vary |-> "pkce", pkce |-> pk, span |-> 0] : pk \in PkceParams }
    \cup { [vary |-> "form", pkce |-> <<Abc, None>>, span |-> MaxTime],
           [vary |-> "gate", pkce |-> <<None, None>>, span |-> 0],
           [vary |-> "uri", pkce |-> <<None, None>>, span |-> 0],
           [vary |-> "sweep", pkce |-> <<None, None>>, span |-> MaxTime + CodeLifetime] }

\* the redirect_uri values a client sends; None when it sends none
RedirectUris(cl) ==
    IF cl.vary = "uri"
    THEN {UriA, UriB, UriRepeat, UriBlank, UriCode, UriFragment, None}
    ELSE {UriA}

\* the state values a client sends; None when it sends none
States(cl) ==
    CASE cl.vary = "uri" -> {None, <<>>, S1, StateAmp}
      [] cl.vary = "gate" -> {None, S1}
      [] OTHER -> {None}

\* whether the clients send POST /token at all
Redeems(cl) == cl.vary # "sweep"

\* query strings of GET /authorize
AuthorizeQueries(cl) ==
    { [response_type |-> rt, client_id |-> ci, redirect_uri |-> ru, state |-> st,
       code_challenge |-> cl.pkce[1], code_challenge_method |-> cl.pkce[2]] :
        rt \in (IF cl.vary = "gate" THEN {Code, None} ELSE {Code}),
        ci \in (CASE cl.vary = "gate" -> {ClientId, OtherId}
                  [] cl.vary = "uri" -> {ClientId, None}
                  [] OTHER -> {ClientId}),
        ru \in RedirectUris(cl),
        st \in States(cl) }

\* a code no /authorize has issued
ForgedCode == ToHex(16 ^ (2 * TokenBytes) - 1, 2 * TokenBytes)

\* form bodies of POST /token, given the codes handed out so far
TokenForms(cl, codes) ==
    { [grant_type |-> gt, code |-> c, client_id |-> cr[1], client_secret |-> cr[2],
       redirect_uri |-> ru, code_verifier |-> cv] :
        gt \in (CASE cl.vary = "form" -> {AuthorizationCode, Password}
                  [] ~Redeems(cl) -> {}
                  [] OTHER -> {AuthorizationCode}),
        c \in codes \cup (IF cl.vary \in {"gate", "uri"} THEN {} ELSE {ForgedCode}),
        cr \in (CASE cl.vary = "form" ->
                        {<<ClientId, ClientSecret>>, <<OtherId, ClientSecret>>,
                         <<ClientId, OtherSecret>>}
                  [] cl.vary = "uri" -> {<<ClientId, ClientSecret>>, <<None, None>>}
                  [] OTHER -> {<<ClientId, ClientSecret>>}),
        ru \in (CASE cl.vary = "gate" -> {UriA}
                  [] cl.vary = "uri" -> {UriA, None}
                  [] OTHER -> {UriA, UriB}),
        cv \in (CASE cl.vary = "pkce" -> {None, <<>>, Abc, Abd}
                  [] cl.vary = "form" -> {Abc, Abd}
                  [] OTHER -> {None}) }
    \cup (IF cl.vary = "form"
          THEN { [grant_type |-> AuthorizationCode, code |-> None,
                  client_id |-> ClientId, client_secret |-> ClientSecret,
                  redirect_uri |-> UriA, code_verifier |-> Abc] }
          ELSE {})

----------------------------------------------------------------------------
(* Responses *)

\* JSONResponse({"error": ...[, "error_description": ...]}, status_code=...)
\* (a key the body does not have is "")
JSONError(status, error, desc) ==
    [status |-> status, error |-> error, error_description |-> desc,
     access_token |-> None, token_type |-> ""]

\* JSONResponse({"access_token": ..., "token_type": "Bearer"})
JSONToken(t) ==
    [status |-> 200, error |-> "", error_description |-> "",
     access_token |-> t, token_type |-> "Bearer"]

\* RedirectResponse(redirect_url, status_code=302)
Redirect(location) ==
    [status |-> 302, error |-> "", error_description |-> "", access_token |-> None,
     token_type |-> "", location |-> location]

\* An exception leaves the handler and authed_app, which catch none; the
\* ASGI server answers for them with 500 and a body that is not JSON.
Unhandled(exception) ==
    [status |-> 500, error |-> "", error_description |-> "", access_token |-> None,
     token_type |-> "", exception |-> exception]

----------------------------------------------------------------------------
(* The dict and the set *)

\* dict.get(key): <<>> for None, <<record>> otherwise
Get(d, k) == IF k \in DOMAIN d THEN <<d[k]>> ELSE <<>>

\* dict.pop(key, None)
Pop(d, k) == [c \in DOMAIN d \ {k} |-> d[c]]

\* d[key] = value
Put(d, k, v) == [c \in DOMAIN d \cup {k} |-> IF c = k THEN v ELSE d[c]]

----------------------------------------------------------------------------
(* oauth.py: the Bearer Validator and the checks of the token endpoint *)

\* mutant: the prefix is stripped when it is there but not required
ValidateTokenNoPrefix(auth, cfg, tokens) ==
    IF auth = <<>> THEN FALSE
    ELSE LET token_val == ReplaceFirst(auth, Bearer)
         IN  IF Truthy(cfg.static_token) /\ token_val = cfg.static_token
             THEN TRUE
             ELSE token_val \in tokens

\* validate_token(scope); auth is the value of the authorization header,
\* <<>> when the request has none
ValidateToken(auth, cfg, tokens) ==
    IF auth = <<>> THEN FALSE
    ELSE LET token_val == IF StartsWith(auth, Bearer)
                          THEN ReplaceFirst(auth, Bearer) ELSE <<>>
         IN  IF Truthy(cfg.static_token) /\ token_val = cfg.static_token
             THEN TRUE
             ELSE token_val \in tokens

\* mutant: the comparison is the wrong way round
ExpiredInverted(record, t) == record.expires_at > t

\* stored["expires_at"] < time.time()
Expired(record, t) == record.expires_at < t

\* mutant: the method decides whether there is anything to verify
PkceOkMethodFirst(record, code_verifier) ==
    IF record.code_challenge_method = S256
    THEN Sha256B64(IF Truthy(code_verifier) THEN code_verifier ELSE <<>>)
             = record.code_challenge
    ELSE IF Truthy(record.code_challenge)
    THEN code_verifier = record.code_challenge
    ELSE TRUE

\* the PKCE verification of token(); TRUE when the request passes
PkceOk(record, code_verifier) ==
    IF Truthy(record.code_challenge)
    THEN IF record.code_challenge_method = S256
         THEN Sha256B64(IF Truthy(code_verifier) THEN code_verifier ELSE <<>>)
                  = record.code_challenge
         ELSE code_verifier = record.code_challenge
    ELSE TRUE

\* mutant: a code that is not in the dict passes the lookup
TokenVerdictUnknownOk(form, stored, t, cfg) ==
    IF stored = <<>> THEN "ok"
    ELSE IF Expired(stored[1], t) THEN "not_found_or_expired"
    ELSE IF form.client_id # cfg.client_id \/ form.client_secret # cfg.client_secret
         THEN "invalid_client"
    ELSE IF stored[1].redirect_uri # form.redirect_uri THEN "redirect_uri"
    ELSE IF ~PkceOk(stored[1], form.code_verifier) THEN "pkce"
    ELSE "ok"

\* mutant: the credentials are refused only when both are wrong
TokenVerdictBothWrong(form, stored, t, cfg) ==
    IF stored = <<>> \/ Expired(stored[1], t) THEN "not_found_or_expired"
    ELSE IF form.client_id # cfg.client_id /\ form.client_secret # cfg.client_secret
         THEN "invalid_client"
    ELSE IF stored[1].redirect_uri # form.redirect_uri THEN "redirect_uri"
    ELSE IF ~PkceOk(stored[1], form.code_verifier) THEN "pkce"
    ELSE "ok"

\* mutant: redirect_uri is compared before the client credentials
TokenVerdictRedirectFirst(form, stored, t, cfg) ==
    IF stored = <<>> \/ Expired(stored[1], t) THEN "not_found_or_expired"
    ELSE IF stored[1].redirect_uri # form.redirect_uri THEN "redirect_uri"
    ELSE IF form.client_id # cfg.client_id \/ form.client_secret # cfg.client_secret
         THEN "invalid_client"
    ELSE IF ~PkceOk(stored[1], form.code_verifier) THEN "pkce"
    ELSE "ok"

\* the checks token() makes once it has looked the code up, in its order
TokenVerdict(form, stored, t, cfg) ==
    IF stored = <<>> \/ Expired(stored[1], t) THEN "not_found_or_expired"
    ELSE IF form.client_id # cfg.client_id \/ form.client_secret # cfg.client_secret
         THEN "invalid_client"
    ELSE IF stored[1].redirect_uri # form.redirect_uri THEN "redirect_uri"
    ELSE IF ~PkceOk(stored[1], form.code_verifier) THEN "pkce"
    ELSE "ok"

\* mutant: an omitted code_challenge_method is stored as None
CodeRecordNoDefault(q, t) ==
    [client_id |-> q.client_id,
     redirect_uri |-> q.redirect_uri,
     code_challenge |-> q.code_challenge,
     code_challenge_method |-> q.code_challenge_method,
     expires_at |-> t + CodeLifetime]

\* the record authorize() stores
CodeRecord(q, t) ==
    [client_id |-> q.client_id,
     redirect_uri |-> q.redirect_uri,
     code_challenge |-> q.code_challenge,
     code_challenge_method |->
         IF q.code_challenge_method = None THEN Plain ELSE q.code_challenge_method,
     expires_at |-> t + CodeLifetime]

----------------------------------------------------------------------------
(* server.py: the ASGI wrapper *)

\* the route table of setup_oauth
Routes ==
    [k \in { <<"/.well-known/oauth-protected-resource", "GET">>,
             <<"/.well-known/oauth-authorization-server", "GET">>,
             <<"/authorize", "GET">>, <<"/token", "POST">> } |->
        CASE k[1] = "/.well-known/oauth-protected-resource" -> "protected_resource"
          [] k[1] = "/.well-known/oauth-authorization-server" -> "authorization_server"
          [] k[1] = "/authorize" -> "authorize"
          [] k[1] = "/token" -> "token"]

\* authed_app(scope, receive, send): who answers the request.  "inner" is
\* inner_app, "health" and "unauthorized" are the wrapper's own responses,
\* any other value is the OAuth handler the request is routed to.
AuthedApp(scope, cfg, tokens) ==
    IF scope.type = "lifespan" THEN "inner"
    ELSE IF scope.type = "http"
    THEN IF scope.path = "/health" /\ scope.method = "GET" THEN "health"
         ELSE IF <<scope.path, scope.method>> \in DOMAIN Routes
         THEN Routes[<<scope.path, scope.method>>]
         ELSE IF ~ValidateToken(scope.authorization, cfg, tokens) THEN "unauthorized"
         ELSE "inner"
    ELSE "inner"

\* strings one edit away from a token
NearMisses(t) ==
    { Append(t, "0"), SubSeq(t, 1, Len(t) - 1), [t EXCEPT ![Len(t)] = "x"] }

\* authorization header values a client may send
AuthValues(tokens) ==
    LET valid == tokens \cup {StaticToken}
        cands == valid \cup UNION { NearMisses(t) : t \in valid }
    IN  {<<>>, Bearer} \cup cands
        \cup { Bearer \o t : t \in cands } \cup { LowerBearer \o t : t \in cands }

Paths == { "/health", "/mcp", "/token", "/.well-known/oauth-protected-resource" }

\* ASGI scopes the server receives.  Only an http scope has a method; the
\* wrapper reads "GET" for the others, and "" for the path of a lifespan
\* scope.
Scopes(cl, tokens) ==
    IF cl.vary = "gate"
    THEN [type : {"http"}, path : {"/mcp"}, method : {"POST"},
          authorization : AuthValues(tokens)]
         \cup [type : {"http"}, path : Paths, method : {"GET", "POST"},
               authorization : {<<>>, Bearer \o StaticToken}]
         \cup [type : {"websocket"}, path : Paths, method : {"GET"},
               authorization : {<<>>, Bearer \o StaticToken}]
         \cup [type : {"lifespan"}, path : {""}, method : {"GET"},
               authorization : {<<>>}]
    ELSE [type : {"http"}, path : {"/mcp"}, method : {"POST"},
          authorization : {<<>>} \cup { Bearer \o t : t \in tokens }]

AuthorizeScope ==
    [type |-> "http", path |-> "/authorize", method |-> "GET", authorization |-> <<>>]
TokenScope ==
    [type |-> "http", path |-> "/token", method |-> "POST", authorization |-> <<>>]

----------------------------------------------------------------------------
(* State *)

NoFrame == [kind |-> "none", pc |-> "idle"]

\* the locals of cleanup() between two runs
SweepIdle(due) ==
    [pc |-> "timer", due |-> due, now |-> 0, used |-> 0, pos |-> -1, expired |-> <<>>]

Busy == cur.pc # "idle"

\* A frame at "done" holds the response of a handler whose last statement
\* has run.  The handler touches no shared state after it, so every step of
\* another thread commutes with its return; the model orders the return
\* first.
Returning == cur.pc = "done"

Init ==
    /\ config = Config
    /\ client \in Clients
    /\ auth_codes = << >>
    /\ access_tokens = {}
    /\ rng = 0
    /\ now = 0
    /\ pending = 0
    /\ cur = NoFrame
    /\ sw = SweepIdle(SweepInterval)
    /\ issued = << >>
    /\ minted = {}

\* time passes
Tick ==
    /\ ~Returning
    /\ now + CodeLifetime <= client.span
    /\ now' = now + CodeLifetime
    /\ UNCHANGED <<config, auth_codes, access_tokens, rng, pending, cur, sw, issued,
                   minted, client>>

----------------------------------------------------------------------------
(* The event loop: one handler runs at a time *)

\* a request answered by the wrapper itself, by inner_app or by a metadata
\* handler
Gate ==
    /\ ~Busy
    /\ \E scope \in Scopes(client, access_tokens) :
        LET who == AuthedApp(scope, config, access_tokens)
        IN  /\ who \notin {"authorize", "token"}
            /\ cur' = [kind |-> "gate", pc |-> "done", scope |-> scope, who |-> who]
    /\ UNCHANGED <<config, auth_codes, access_tokens, rng, now, pending, sw, issued,
                   minted, client>>

\* oauth.py:79-85: the redirect target, for a redirect_uri that is a string
RedirectUrl(redirect_uri, code, state) ==
    LET parsed == UrlParse(redirect_uri)
        qs == SetItem(ParseQs(parsed.query), Code, <<code>>)
        with_state == IF Truthy(state) THEN SetItem(qs, StateKey, <<state>>) ELSE qs
        new_query == UrlEncodeFirst(with_state)
    IN  UrlUnparse([parsed EXCEPT !.query = new_query])

\* oauth.py:78-87: what authorize() answers once the code is stored.
\* Without a redirect_uri, urlparse(None) yields a result of bytes, and
\* urlunparse raises TypeError on its mix with the str query of line 84.
AuthorizeResponse(q, code) ==
    IF q.redirect_uri = None THEN Unhandled("TypeError")
    ELSE Redirect(RedirectUrl(q.redirect_uri, code, q.state))

\* mutant: the client is checked before the response type
AuthorizeVerdictClientFirst(q, cfg) ==
    IF q.client_id # cfg.client_id THEN "invalid_client"
    ELSE IF q.response_type # Code THEN "unsupported_response_type"
    ELSE "ok"

\* oauth.py:64-67: the two checks of authorize(), in their order
AuthorizeVerdict(q, cfg) ==
    IF q.response_type # Code THEN "unsupported_response_type"
    ELSE IF q.client_id # cfg.client_id THEN "invalid_client"
    ELSE "ok"

\* GET /authorize: authorize(request) has no await and runs to its response
Authorize ==
    /\ ~Busy
    /\ AuthedApp(AuthorizeScope, config, access_tokens) = "authorize"
    /\ \E q \in AuthorizeQueries(client) :
        LET v == AuthorizeVerdict(q, config)
        IN  IF v = "unsupported_response_type"
            THEN /\ cur' = [kind |-> "authorize", pc |-> "done", query |-> q,
                            code |-> None,
                            response |-> JSONError(400, "unsupported_response_type", "")]
                 /\ UNCHANGED <<auth_codes, rng, issued>>
            ELSE IF v = "invalid_client"
            THEN /\ cur' = [kind |-> "authorize", pc |-> "done", query |-> q,
                            code |-> None,
                            response |-> JSONError(403, "invalid_client", "")]
                 /\ UNCHANGED <<auth_codes, rng, issued>>
            ELSE /\ Cardinality(DOMAIN issued) < MaxCodes
                 /\ LET code == TokenHex(rng)
                    IN  /\ rng' = rng + 1
                        /\ auth_codes' = Put(auth_codes, code, CodeRecord(q, now))
                        /\ issued' = Put(issued, code, CodeRecord(q, now))
                        /\ cur' = [kind |-> "authorize", pc |-> "done", query |-> q,
                                   code |-> code,
                                   response |-> AuthorizeResponse(q, code)]
    /\ UNCHANGED <<config, access_tokens, now, pending, sw, minted, client>>

\* POST /token arrives: token(request) starts and suspends in
\* `await request.body()`
TokenRequest ==
    /\ ~Busy
    /\ AuthedApp(TokenScope, config, access_tokens) = "token"
    /\ Redeems(client)
    /\ pending < MaxPending
    /\ pending' = pending + 1
    /\ UNCHANGED <<config, auth_codes, access_tokens, rng, now, cur, sw, issued,
                   minted, client>>

TokenFrame(form, pc, stored, t, response) ==
    [kind |-> "token", pc |-> pc, form |-> form, stored |-> stored, t |-> t,
     response |-> response]

\* oauth.py:91-104: the body has arrived; parse it and check grant_type
TokenBody ==
    /\ ~Busy
    /\ pending > 0
    /\ pending' = pending - 1
    /\ \E form \in TokenForms(client, DOMAIN issued) :
        cur' = IF form.grant_type # AuthorizationCode
               THEN TokenFrame(form, "done", <<>>, -1,
                               JSONError(400, "unsupported_grant_type", ""))
               ELSE TokenFrame(form, "get", <<>>, -1, JSONError(0, "", ""))
    /\ UNCHANGED <<config, auth_codes, access_tokens, rng, now, sw, issued, minted,
                   client>>

\* oauth.py:106
TokenGet ==
    /\ cur.pc = "get"
    /\ cur' = [cur EXCEPT !.pc = "check", !.stored = Get(auth_codes, cur.form.code)]
    /\ UNCHANGED <<config, auth_codes, access_tokens, rng, now, pending, sw, issued,
                   minted, client>>

\* oauth.py:107-125: read the clock, then the checks on the locals
TokenCheck ==
    /\ cur.pc = "check"
    /\ LET v == TokenVerdict(cur.form, cur.stored, now, config)
       IN  cur' = CASE v = "not_found_or_expired" ->
                        [cur EXCEPT !.pc = "pop_fail", !.t = now]
                    [] v = "invalid_client" ->
                        [cur EXCEPT !.pc = "done", !.t = now,
                            !.response = JSONError(401, "invalid_client", "")]
                    [] v = "redirect_uri" ->
                        [cur EXCEPT !.pc = "done", !.t = now,
                            !.response = JSONError(400, "invalid_grant",
                                                   "redirect_uri mismatch")]
                    [] v = "pkce" ->
                        [cur EXCEPT !.pc = "done", !.t = now,
                            !.response = JSONError(400, "invalid_grant",
                                                   "PKCE verification failed")]
                    [] v = "ok" -> [cur EXCEPT !.pc = "pop", !.t = now]
    /\ UNCHANGED <<config, auth_codes, access_tokens, rng, now, pending, sw, issued,
                   minted, client>>

\* mutant: an expired code gets an answer of its own
TokenPopFailDescribes ==
    /\ cur.pc = "pop_fail"
    /\ auth_codes' = Pop(auth_codes, cur.form.code)
    /\ cur' = [cur EXCEPT !.pc = "done",
                          !.response = JSONError(400, "invalid_grant",
                                                 IF cur.stored = <<>> THEN ""
                                                 ELSE "code expired")]
    /\ UNCHANGED <<config, access_tokens, rng, now, pending, sw, issued, minted,
                   client>>

\* mutant: the expired record is left in the dict
TokenPopFailKeeps ==
    /\ cur.pc = "pop_fail"
    /\ cur' = [cur EXCEPT !.pc = "done", !.response = JSONError(400, "invalid_grant", "")]
    /\ UNCHANGED <<config, auth_codes, access_tokens, rng, now, pending, sw, issued,
                   minted, client>>

\* oauth.py:108-109
TokenPopFail ==
    /\ cur.pc = "pop_fail"
    /\ auth_codes' = Pop(auth_codes, cur.form.code)
    /\ cur' = [cur EXCEPT !.pc = "done", !.response = JSONError(400, "invalid_grant", "")]
    /\ UNCHANGED <<config, access_tokens, rng, now, pending, sw, issued, minted,
                   client>>

\* mutant: the code is not removed on success
TokenPopKeeps ==
    /\ cur.pc = "pop"
    /\ cur' = [cur EXCEPT !.pc = "mint"]
    /\ UNCHANGED <<config, auth_codes, access_tokens, rng, now, pending, sw, issued,
                   minted, client>>

\* oauth.py:127
TokenPop ==
    /\ cur.pc = "pop"
    /\ auth_codes' = Pop(auth_codes, cur.form.code)
    /\ cur' = [cur EXCEPT !.pc = "mint"]
    /\ UNCHANGED <<config, access_tokens, rng, now, pending, sw, issued, minted,
                   client>>

\* mutant: the token is returned but not added to the set
TokenMintForgets ==
    /\ cur.pc = "mint"
    /\ LET access_token == TokenHex(rng)
       IN  /\ rng' = rng + 1
           /\ minted' = minted \cup {<<cur.form.code, access_token>>}
           /\ cur' = [cur EXCEPT !.pc = "done", !.response = JSONToken(access_token)]
    /\ UNCHANGED <<config, auth_codes, access_tokens, now, pending, sw, issued, client>>

\* oauth.py:129-135
TokenMint ==
    /\ cur.pc = "mint"
    /\ LET access_token == TokenHex(rng)
       IN  /\ rng' = rng + 1
           /\ access_tokens' = access_tokens \cup {access_token}
           /\ minted' = minted \cup {<<cur.form.code, access_token>>}
           /\ cur' = [cur EXCEPT !.pc = "done", !.response = JSONToken(access_token)]
    /\ UNCHANGED <<config, auth_codes, now, pending, sw, issued, client>>

\* the response has been sent and the handler returns
Return ==
    /\ cur.pc = "done"
    /\ cur' = NoFrame
    /\ UNCHANGED <<config, auth_codes, access_tokens, rng, now, pending, sw, issued,
                   minted, client>>

----------------------------------------------------------------------------
(* The cleanup timer thread, oauth.py:27-35 *)

\* the keys of the dict after position pos of its insertion order
After(d, pos) == { c \in DOMAIN d : HexVal(c) > pos }

\* oauth.py:28-29: the timer fires; read the clock and start to iterate
SweepStart ==
    /\ ~Returning
    /\ sw.pc = "timer"
    /\ now >= sw.due
    /\ sw' = [sw EXCEPT !.pc = "iter", !.now = now,
                        !.used = Cardinality(DOMAIN auth_codes),
                        !.pos = -1, !.expired = <<>>]
    /\ UNCHANGED <<config, auth_codes, access_tokens, rng, now, pending, cur, issued,
                   minted, client>>

\* oauth.py:29: one step of the iteration over auth_codes.items().  The
\* iterator raises RuntimeError when the dict has changed size; the
\* exception ends the thread before it re-arms the timer.
SweepNext ==
    /\ ~Returning
    /\ sw.pc = "iter"
    /\ sw' = IF Cardinality(DOMAIN auth_codes) # sw.used
             THEN [SweepIdle(sw.due) EXCEPT !.pc = "dead"]
             ELSE IF After(auth_codes, sw.pos) = {}
             THEN [sw EXCEPT !.pc = "pop"]
             ELSE LET c == CHOOSE x \in After(auth_codes, sw.pos) :
                               \A y \in After(auth_codes, sw.pos) : HexVal(x) <= HexVal(y)
                  IN  [sw EXCEPT !.pos = HexVal(c),
                                 !.expired = IF Expired(auth_codes[c], sw.now)
                                             THEN Append(@, c) ELSE @]
    /\ UNCHANGED <<config, auth_codes, access_tokens, rng, now, pending, cur, issued,
                   minted, client>>

\* oauth.py:30-31: pop the next expired code
SweepPop ==
    /\ ~Returning
    /\ sw.pc = "pop"
    /\ sw.expired # <<>>
    /\ auth_codes' = Pop(auth_codes, Head(sw.expired))
    /\ sw' = [sw EXCEPT !.expired = Tail(@)]
    /\ UNCHANGED <<config, access_tokens, rng, now, pending, cur, issued, minted,
                   client>>

\* mutant: the cleanup also empties the token set
SweepRearmPurges ==
    /\ ~Returning
    /\ sw.pc = "pop"
    /\ sw.expired = <<>>
    /\ sw' = SweepIdle(now + SweepInterval)
    /\ access_tokens' = {}
    /\ UNCHANGED <<config, auth_codes, rng, now, pending, cur, issued, minted, client>>

\* oauth.py:32: start the next timer
SweepRearm ==
    /\ ~Returning
    /\ sw.pc = "pop"
    /\ sw.expired = <<>>
    /\ sw' = SweepIdle(now + SweepInterval)
    /\ UNCHANGED <<config, auth_codes, access_tokens, rng, now, pending, cur, issued,
                   minted, client>>

----------------------------------------------------------------------------

Next ==
    \/ Tick
    \/ Gate
    \/ Authorize
    \/ TokenRequest
    \/ TokenBody
    \/ TokenGet
    \/ TokenCheck
    \/ TokenPopFail
    \/ TokenPop
    \/ TokenMint
    \/ Return
    \/ SweepStart
    \/ SweepNext
    \/ SweepPop
    \/ SweepRearm

Spec == Init /\ [][Next]_vars

----------------------------------------------------------------------------
(* server.py: the tool search_x and its two sources.  lib.bird_x, lib.xai_x  *)
(* and lib.models are outside this program: what their calls return or raise *)
(* is an input of the model, as is the environment variable XAI_API_KEY.     *)

Topic == <<"a", "i">>
DateGiven == <<"2", "0", "2", "4", "-", "0", "1", "-", "0", "1">>
DateToday == <<"2", "0", "2", "4", "-", "0", "3", "-", "3", "1">>
DateAgo30 == <<"2", "0", "2", "4", "-", "0", "3", "-", "0", "1">>
DepthDefault == <<"d", "e", "f", "a", "u", "l", "t">>
XaiKey == <<"x", "k">>
Boom == <<"b", "o", "o", "m">>
RateLimited == <<"4", "2", "9">>
Posts == <<"p", "q">>           \* a list of two posts

NotAuthenticated == <<"N", "o", "t", " ", "a", "u", "t", "h", "e", "n", "t", "i", "c", "a", "t", "e", "d">>
KeyNotConfigured == <<"X", "A", "I", "_", "A", "P", "I", "_", "K", "E", "Y", " ", "n", "o", "t", " ", "c", "o", "n", "f", "i", "g", "u", "r", "e", "d">>
BirdPrefix == <<"B", "i", "r", "d", ":", " ">>
XaiPrefix == <<";", " ", "x", "A", "I", ":", " ">>

\* str(e) of the exceptions a call may raise
ExceptionMessages == {Boom, <<>>}

\* what get_bird_status() does, the import before it included: it raises,
\* or it returns a dict that has the key "authenticated" (has_key) with this
\* value, or has it not
StatusOutcomes ==
    { [raises |-> m, has_key |-> FALSE, authenticated |-> FALSE] :
        m \in ExceptionMessages }
    \cup { [raises |-> None, has_key |-> FALSE, authenticated |-> FALSE] }
    \cup { [raises |-> None, has_key |-> TRUE, authenticated |-> a] : a \in BOOLEAN }

\* the dicts a search returns; None is a key the dict does not have
SearchResults ==
    [error : {None, RateLimited}, items : {None, <<>>, Posts},
     tweets : {None, <<>>, Posts}]

\* what a call of a source does: it raises or it returns a dict
SearchOutcomes ==
    { [raises |-> m, result |-> <<>>] : m \in ExceptionMessages }
    \cup { [raises |-> None, result |-> <<r>>] : r \in SearchResults }

\* what select_xai_model(xai_key) does, the imports before it included
ModelOutcomes == ExceptionMessages \cup {None}

\* str(v) of an optional string, as an f-string formats it
PyStr(v) == IF v = None THEN <<"N", "o", "n", "e">> ELSE v

\* f"Bird: {bird_error}; xAI: {xai_error}"
ErrorText(bird_error, xai_error) ==
    BirdPrefix \o PyStr(bird_error) \o XaiPrefix \o PyStr(xai_error)

\* server.py:42: result.get("items") or result.get("tweets")
HasPosts(result) == Truthy(result.items) \/ Truthy(result.tweets)

\* the frame of a call of search_x.  calls is the history of the calls it has
\* made to its sources, bird_result and xai_result are the dicts they have
\* returned, and returned is the object whose JSON text the call returns
\* (json.dumps writes a dict of strings and lists as the object it is).
SearchFrame(pc, args) ==
    [kind |-> "search_x", pc |-> pc, topic |-> args.topic,
     from_date |-> args.from_date, to_date |-> args.to_date, depth |-> args.depth,
     bird_error |-> None, xai_error |-> None,
     calls |-> <<>>, bird_result |-> <<>>, xai_result |-> <<>>, returned |-> <<>>]

\* the arguments of a call of the tool
SearchArgs ==
    [topic : {Topic}, from_date : {<<>>, DateGiven}, to_date : {<<>>, DateGiven},
     depth : {DepthDefault}]

\* server.py:27-32: the tool is called; absent dates get their defaults
SearchX ==
    /\ ~Busy
    /\ \E args \in SearchArgs :
        cur' = SearchFrame("bird_status",
                   [args EXCEPT !.from_date = IF @ = <<>> THEN DateAgo30 ELSE @,
                                !.to_date = IF @ = <<>> THEN DateToday ELSE @])
    /\ UNCHANGED <<config, auth_codes, access_tokens, rng, now, pending, sw, issued,
                   minted, client>>

\* server.py:34-37, 45-48: import lib.bird_x and ask for its status
SearchBirdStatus ==
    /\ cur.pc = "bird_status"
    /\ \E o \in StatusOutcomes :
        cur' = IF o.raises # None
               THEN [cur EXCEPT !.pc = "xai_key", !.bird_error = o.raises,
                                !.calls = Append(@, "get_bird_status")]
               ELSE IF o.has_key /\ o.authenticated
               THEN [cur EXCEPT !.pc = "bird_search",
                                !.calls = Append(@, "get_bird_status")]
               ELSE [cur EXCEPT !.pc = "xai_key", !.bird_error = NotAuthenticated,
                                !.calls = Append(@, "get_bird_status")]
    /\ UNCHANGED <<config, auth_codes, access_tokens, rng, now, pending, sw, issued,
                   minted, client>>

\* server.py:38-43, 46-48: search with Bird
SearchBird ==
    /\ cur.pc = "bird_search"
    /\ \E o \in SearchOutcomes :
        cur' = IF o.raises # None
               THEN [cur EXCEPT !.pc = "xai_key", !.bird_error = o.raises,
                                !.calls = Append(@, "bird_search")]
               ELSE LET result == o.result[1]
                        bird_error == IF Truthy(result.error) THEN result.error
                                      ELSE cur.bird_error
                    IN  IF HasPosts(result)
                        THEN [cur EXCEPT !.pc = "done", !.bird_error = bird_error,
                                         !.calls = Append(@, "bird_search"),
                                         !.bird_result = o.result,
                                         !.returned = <<result>>]
                        ELSE [cur EXCEPT !.pc = "xai_key", !.bird_error = bird_error,
                                         !.calls = Append(@, "bird_search"),
                                         !.bird_result = o.result]
    /\ UNCHANGED <<config, auth_codes, access_tokens, rng, now, pending, sw, issued,
                   minted, client>>

\* server.py:51-54, 60-61: read XAI_API_KEY
SearchXaiKey ==
    /\ cur.pc = "xai_key"
    /\ \E xai_key \in {None, <<>>, XaiKey} :
        cur' = IF Truthy(xai_key)
               THEN [cur EXCEPT !.pc = "xai_model"]
               ELSE [cur EXCEPT !.pc = "fail", !.xai_error = KeyNotConfigured]
    /\ UNCHANGED <<config, auth_codes, access_tokens, rng, now, pending, sw, issued,
                   minted, client>>

\* server.py:55-57, 62-64: import lib.xai_x and lib.models, select the model
SearchXaiModel ==
    /\ cur.pc = "xai_model"
    /\ \E o \in ModelOutcomes :
        cur' = IF o # None
               THEN [cur EXCEPT !.pc = "fail", !.xai_error = o,
                                !.calls = Append(@, "select_xai_model")]
               ELSE [cur EXCEPT !.pc = "xai_search",
                                !.calls = Append(@, "select_xai_model")]
    /\ UNCHANGED <<config, auth_codes, access_tokens, rng, now, pending, sw, issued,
                   minted, client>>

\* server.py:58-59, 62-64: search with xAI; what it returns is the answer
SearchXai ==
    /\ cur.pc = "xai_search"
    /\ \E o \in SearchOutcomes :
        cur' = IF o.raises # None
               THEN [cur EXCEPT !.pc = "fail", !.xai_error = o.raises,
                                !.calls = Append(@, "xai_search")]
               ELSE [cur EXCEPT !.pc = "done",
                                !.calls = Append(@, "xai_search"),
                                !.xai_result = o.result,
                                !.returned = o.result]
    /\ UNCHANGED <<config, auth_codes, access_tokens, rng, now, pending, sw, issued,
                   minted, client>>

\* server.py:66
SearchFail ==
    /\ cur.pc = "fail"
    /\ cur' = [cur EXCEPT !.pc = "done",
                          !.returned = <<[error |->
                              ErrorText(cur.bird_error, cur.xai_error)]>>]
    /\ UNCHANGED <<config, auth_codes, access_tokens, rng, now, pending, sw, issued,
                   minted, client>>

\* the tool runs in a server that has started and serves no other request
SearchInit == Init /\ client.vary = "gate"

SearchNext ==
    \/ SearchX
    \/ SearchBirdStatus
    \/ SearchBird
    \/ SearchXaiKey
    \/ SearchXaiModel
    \/ SearchXai
    \/ SearchFail
    \/ Return

SearchSpec == SearchInit /\ [][SearchNext]_vars

----------------------------------------------------------------------------
(* Properties *)

\* the /token handler has answered: cur holds its form, the record it found
\* (stored), the clock it read (t) and its response
TokenDone == cur.kind = "token" /\ cur.pc = "done"

GrantOk == cur.form.grant_type = AuthorizationCode

IsError(r, status, error, desc) ==
    /\ r.status = status
    /\ r.error = error
    /\ r.error_description = desc
    /\ r.access_token = None

\* the tokens minted for a code
MintedFor(code) == { m[2] : m \in { x \in minted : x[1] = code } }

\* C1: every code is exchanged for at most one access token, and a /token
\* request (grant_type=authorization_code) for a code that another request
\* has already exchanged is answered 400 invalid_grant.
C1_SingleUse ==
    /\ \A code \in DOMAIN issued : Cardinality(MintedFor(code)) <= 1
    /\ (TokenDone /\ GrantOk
        /\ MintedFor(cur.form.code) \ {cur.response.access_token} # {})
       => IsError(cur.response, 400, "invalid_grant", "")

\* a code has been exchanged, and a second request for it has been refused
C1_Witness ==
    /\ TokenDone
    /\ MintedFor(cur.form.code) # {}
    /\ cur.form.client_id = ClientId /\ cur.form.client_secret = ClientSecret
    /\ cur.form.redirect_uri = UriA
    /\ IsError(cur.response, 400, "invalid_grant", "")

\* the verifier matches the challenge of the record, as the claim defines it
VerifierMatches(record, code_verifier) ==
    /\ code_verifier # None
    /\ IF record.code_challenge_method = S256
       THEN Sha256B64(code_verifier) = record.code_challenge
       ELSE code_verifier = record.code_challenge

\* C2: a /token request for a code stored with a non-empty code_challenge is
\* answered with an access token only if the code_verifier it supplies
\* matches the challenge; an omitted code_verifier never matches.
C2_PkceEnforced ==
    (TokenDone /\ cur.stored # <<>> /\ Truthy(cur.stored[1].code_challenge)
     /\ cur.response.status = 200)
    => VerifierMatches(cur.stored[1], cur.form.code_verifier)

OpenRoute(scope) ==
    \/ scope.path = "/health" /\ scope.method = "GET"
    \/ scope.path = "/.well-known/oauth-protected-resource" /\ scope.method = "GET"
    \/ scope.path = "/.well-known/oauth-authorization-server" /\ scope.method = "GET"
    \/ scope.path = "/authorize" /\ scope.method = "GET"
    \/ scope.path = "/token" /\ scope.method = "POST"

\* C3: a request (a scope of any type but lifespan) that is not for an open
\* route reaches inner_app only if the Bearer Validator accepts it.
C3_GateClosed ==
    (cur.kind = "gate" /\ cur.who = "inner"
     /\ cur.scope.type # "lifespan" /\ ~OpenRoute(cur.scope))
    => ValidateToken(cur.scope.authorization, config, access_tokens)

\* what follows the prefix "Bearer "
AfterBearer(auth) == SubSeq(auth, Len(Bearer) + 1, Len(auth))

\* C4: validate_token accepts a header value exactly when it starts with
\* "Bearer " and the rest is the static token or a token of the Token Store.
C4_ValidatorPredicate ==
    \A auth \in AuthValues(access_tokens) :
        ValidateToken(auth, config, access_tokens)
        <=> /\ Len(auth) >= Len(Bearer)
            /\ \A i \in 1..Len(Bearer) : auth[i] = Bearer[i]
            /\ \/ AfterBearer(auth) = config.static_token
               \/ AfterBearer(auth) \in access_tokens

\* the gate has let a request with an OAuth-issued token through, and the
\* same token without the prefix, or one character off, is refused
C4_Witness ==
    /\ cur.kind = "gate" /\ cur.who = "inner" /\ cur.scope.type = "http"
    /\ cur.scope.path = "/mcp"
    /\ \E t \in access_tokens :
        /\ cur.scope.authorization = Bearer \o t
        /\ ~ValidateToken(t, config, access_tokens)
        /\ ~ValidateToken(Bearer \o Append(t, "0"), config, access_tokens)

\* C5: a /token request (grant_type=authorization_code) that reads the clock
\* after the expires_at of the code it presents is answered 400
\* invalid_grant without an access token, swept or not.
C5_ExpiredRefused ==
    (TokenDone /\ GrantOk /\ cur.form.code \in DOMAIN issued
     /\ cur.t > issued[cur.form.code].expires_at)
    => IsError(cur.response, 400, "invalid_grant", "")

\* the handler found the record of an expired code still in the store (the
\* sweeper had not removed it) and refused it
C5_Witness ==
    /\ TokenDone
    /\ cur.stored # <<>>
    /\ cur.t > cur.stored[1].expires_at
    /\ cur.response.status = 400

\* C6: a /token request whose grant_type, code (present, unexpired), client
\* credentials, redirect_uri and PKCE proof are all valid is answered 200
\* with a Bearer access token that no earlier exchange returned, that is in
\* the Token Store and passes the Bearer Validator ever after, and its code
\* has left the Code Store.
C6_SuccessfulExchange ==
    /\ (TokenDone /\ GrantOk /\ cur.stored # <<>>
        /\ cur.stored[1].expires_at >= cur.t
        /\ cur.form.client_id = config.client_id
        /\ cur.form.client_secret = config.client_secret
        /\ cur.form.redirect_uri = cur.stored[1].redirect_uri
        /\ (Truthy(cur.stored[1].code_challenge)
            => VerifierMatches(cur.stored[1], cur.form.code_verifier)))
       => /\ cur.response.status = 200
          /\ cur.response.token_type = "Bearer"
          /\ cur.response.access_token \in access_tokens
          /\ cur.response.access_token \notin DOMAIN issued
          /\ \A m \in minted :
                m[2] = cur.response.access_token => m[1] = cur.form.code
          /\ cur.form.code \notin DOMAIN auth_codes
    /\ \A m \in minted : ValidateToken(Bearer \o m[2], config, access_tokens)

\* an exchange with a PKCE proof has succeeded
C6_Witness ==
    /\ TokenDone
    /\ cur.response.status = 200
    /\ Truthy(cur.stored[1].code_challenge)
    /\ cur.response.access_token \in access_tokens

\* C7: no step removes a token from the Token Store.
C7_TokensAppendOnly == [][access_tokens \subseteq access_tokens']_vars

\* a token is in the store after the cleanup has run and after an exchange
\* has failed
C7_Witness ==
    /\ access_tokens # {}
    /\ sw.due > SweepInterval
    /\ TokenDone
    /\ cur.response.status = 400

FoundCodeFailure ==
    \/ IsError(cur.response, 401, "invalid_client", "")
    \/ IsError(cur.response, 400, "invalid_grant", "redirect_uri mismatch")
    \/ IsError(cur.response, 400, "invalid_grant", "PKCE verification failed")

C9_InvalidClientKeepsCode ==
    [][(/\ cur.pc = "check"
        /\ cur'.pc # "check"
        /\ cur.stored # <<>>
        /\ cur.stored[1].expires_at >= now
        /\ \/ cur.form.client_id # config.client_id
           \/ cur.form.client_secret # config.client_secret)
       => /\ IsError(cur'.response, 401, "invalid_client", "")
          /\ cur'.pc = "done"
          /\ auth_codes' = auth_codes
          /\ cur.form.code \in DOMAIN auth_codes'
          /\ access_tokens' = access_tokens
          /\ minted' = minted]_vars

\* a request with a wrong secret only has been refused and its code is
\* still in the store
C9_Witness ==
    /\ TokenDone
    /\ cur.form.client_id = ClientId
    /\ cur.form.client_secret = OtherSecret
    /\ cur.response.status = 401
    /\ cur.form.code \in DOMAIN auth_codes

CredentialsOk ==
    /\ cur.form.client_id = config.client_id
    /\ cur.form.client_secret = config.client_secret

CodeUsable == cur.stored # <<>> /\ cur.stored[1].expires_at >= cur.t

\* C10: the answer of /token is that of the first check that fails, in the
\* order grant_type, code, client credentials, redirect_uri, PKCE; a request
\* with a wrong grant_type is answered before the code is looked up.
C10_ValidationOrder ==
    TokenDone =>
        /\ ~GrantOk =>
            /\ IsError(cur.response, 400, "unsupported_grant_type", "")
            /\ cur.stored = <<>> /\ cur.t = -1
        /\ (GrantOk /\ ~CodeUsable) => IsError(cur.response, 400, "invalid_grant", "")
        /\ (GrantOk /\ CodeUsable /\ ~CredentialsOk)
            => IsError(cur.response, 401, "invalid_client", "")
        /\ (GrantOk /\ CodeUsable /\ CredentialsOk
            /\ cur.stored[1].redirect_uri # cur.form.redirect_uri)
            => IsError(cur.response, 400, "invalid_grant", "redirect_uri mismatch")
        /\ IsError(cur.response, 400, "invalid_grant", "PKCE verification failed")
            => /\ GrantOk /\ CodeUsable /\ CredentialsOk
               /\ cur.stored[1].redirect_uri = cur.form.redirect_uri
        /\ cur.response.status = 200
            => /\ GrantOk /\ CodeUsable /\ CredentialsOk
               /\ cur.stored[1].redirect_uri = cur.form.redirect_uri

\* a request with wrong credentials, a wrong redirect_uri and a wrong
\* verifier has been answered invalid_client
C10_Witness ==
    /\ TokenDone
    /\ GrantOk /\ CodeUsable /\ ~CredentialsOk
    /\ cur.stored[1].redirect_uri # cur.form.redirect_uri
    /\ cur.form.code_verifier # cur.stored[1].code_challenge
    /\ cur.response.status = 401

\* the step in which GET /authorize answers
AuthorizeStep == cur.kind # "authorize" /\ cur'.kind = "authorize"

\* C11: /authorize answers 400 unsupported_response_type when response_type
\* is not "code" (whatever the client_id), 403 invalid_client when the
\* client_id is not the configured one, and in both cases creates no code and
\* changes neither store; a request that passes both checks adds exactly one
\* new record to the Code Store, and no other request adds one.
C11_AuthorizeValidation ==
    [][AuthorizeStep =>
        LET q == cur'.query
        IN  /\ access_tokens' = access_tokens
            /\ IF q.response_type # Code
               THEN /\ IsError(cur'.response, 400, "unsupported_response_type", "")
                    /\ cur'.code = None
                    /\ auth_codes' = auth_codes
               ELSE IF q.client_id # config.client_id
               THEN /\ IsError(cur'.response, 403, "invalid_client", "")
                    /\ cur'.code = None
                    /\ auth_codes' = auth_codes
               ELSE /\ cur'.code \notin DOMAIN auth_codes
                    /\ DOMAIN auth_codes' = DOMAIN auth_codes \cup {cur'.code}
                    /\ \A c \in DOMAIN auth_codes : auth_codes'[c] = auth_codes[c]]_vars

\* a request with a wrong response_type and a wrong client_id has been
\* answered unsupported_response_type and the Code Store is empty
C11_Witness ==
    /\ cur.kind = "authorize" /\ cur.pc = "done"
    /\ cur.query.response_type # Code
    /\ cur.query.client_id # config.client_id
    /\ cur.response.status = 400
    /\ auth_codes = << >>

\* GET /authorize has answered with a redirect
AuthorizeRedirected ==
    cur.kind = "authorize" /\ cur.pc = "done" /\ cur.response.status = 302

\* C12: the target of the 302 of /authorize is the redirect_uri of the
\* request with its query changed: a client that reads the query of the
\* target finds one code parameter, the stored code; the state of the request
\* as it was sent, whenever the request had a state parameter; and, for every
\* other name in the query of redirect_uri, all the values it had there, blank
\* and repeated ones included.
C12_RedirectConstruction ==
    AuthorizeRedirected =>
        LET target == UrlParse(cur.response.location)
            orig == UrlParse(cur.query.redirect_uri)
            got == ParseQsl(target.query, TRUE)
            had == ParseQsl(orig.query, TRUE)
        IN  /\ target.base = orig.base
            /\ target.fragment = orig.fragment
            /\ cur.code \in DOMAIN auth_codes
            /\ ValuesOf(got, Code) = <<cur.code>>
            /\ cur.query.state # None => ValuesOf(got, StateKey) = <<cur.query.state>>
            /\ \A i \in 1..Len(had) :
                had[i][1] \notin {Code, StateKey}
                => ValuesOf(got, had[i][1]) = ValuesOf(had, had[i][1])

\* C13: the cleanup keeps running for as long as the process does, so a
\* code whose expires_at has passed is in the Code Store only while a timer
\* is armed or a sweep is under way that will remove it.
C13_SweeperLive ==
    \A c \in DOMAIN auth_codes :
        Expired(auth_codes[c], now) => sw.pc \in {"timer", "iter", "pop"}

\* C14: a sweep that runs while /authorize inserts and /token looks up and
\* removes ends without a fault, and each record it removes has an
\* expires_at earlier than the clock reading of the sweep.
C14_SweepInterleavingSafe ==
    [][/\ sw.pc = "iter" => sw'.pc \in {"iter", "pop"}
       /\ (sw.pc = "pop" /\ sw' # sw) =>
            \A c \in DOMAIN auth_codes \ DOMAIN auth_codes' :
                Expired(auth_codes[c], sw.now)]_vars

\* C15: a /token request (grant_type=authorization_code) whose code is in
\* the Code Store but expired gets the answer of a request whose code is not
\* in the store, 400 invalid_grant without a description, and its record is
\* not in the Code Store afterwards.
C15_ExpiredAsNotFound ==
    (TokenDone /\ GrantOk)
    => /\ cur.stored = <<>> => cur.response = JSONError(400, "invalid_grant", "")
       /\ (cur.stored # <<>> /\ cur.stored[1].expires_at < cur.t)
          => /\ cur.response = JSONError(400, "invalid_grant", "")
             /\ cur.form.code \notin DOMAIN auth_codes

\* a request that is valid but for the age of its code has been answered as
\* if the code were unknown, and the record is gone
C15_Witness ==
    /\ TokenDone /\ GrantOk /\ CredentialsOk
    /\ cur.stored # <<>>
    /\ cur.stored[1].expires_at < cur.t
    /\ cur.stored[1].redirect_uri = cur.form.redirect_uri
    /\ cur.form.code_verifier = cur.stored[1].code_challenge
    /\ cur.response = JSONError(400, "invalid_grant", "")
    /\ auth_codes = << >>

ProtocolErrors ==
    { "unsupported_response_type", "unsupported_grant_type", "invalid_client",
      "invalid_grant" }

\* C16: every /authorize and /token request, whatever parameters it lacks,
\* is answered with a success (302 or 200) or with a JSON error of status
\* 400, 401 or 403 whose error is one of the four protocol errors; no
\* exception leaves a handler, and an /authorize request that is not answered
\* with its redirect has put no code in the Code Store.
C16_NoUnhandledFault ==
    (cur.kind \in {"authorize", "token"} /\ cur.pc = "done")
    => \/ cur.kind = "authorize" /\ cur.response.status = 302
       \/ cur.kind = "token" /\ cur.response.status = 200
       \/ /\ cur.response.status \in {400, 401, 403}
          /\ cur.response.error \in ProtocolErrors
          /\ cur.kind = "authorize" => cur.code = None

\* C17: a /token request for a code that was issued without a
\* code_challenge, and that passes the checks of grant_type, code, client
\* credentials and redirect_uri, is answered 200 with an access token whatever
\* its code_verifier is, and whatever code_challenge_method the code was
\* issued with.
C17_PkceSkipped ==
    (TokenDone /\ GrantOk /\ CodeUsable /\ CredentialsOk
     /\ cur.stored[1].redirect_uri = cur.form.redirect_uri
     /\ cur.stored[1].code_challenge = None)
    => /\ cur.response.status = 200
       /\ cur.response.access_token \in access_tokens

\* a code issued with a method and no challenge has been exchanged by a
\* request that sent a verifier
C17_Witness ==
    /\ TokenDone
    /\ cur.stored # <<>>
    /\ cur.stored[1].code_challenge = None
    /\ cur.stored[1].code_challenge_method = S256
    /\ cur.form.code_verifier = Abc
    /\ cur.response.status = 200

\* every token of the Token Store has its exchange in the history, for a
\* code that was issued; no code has two exchanges and no token two codes
TokensTraceToCodes ==
    /\ access_tokens = { m[2] : m \in minted }
    /\ \A m \in minted : m[1] \in DOMAIN issued
    /\ \A m1, m2 \in minted : (m1[1] = m2[1] \/ m1[2] = m2[2]) => m1 = m2
    /\ Cardinality(access_tokens) <= Cardinality(DOMAIN issued)

\* C18: the Token Store changes only in the last step of a /token request
\* that found its code in the Code Store, which adds one token, answers 200
\* with it and leaves the code out of the Code Store; every token is that of
\* one such exchange of a code /authorize issued, different tokens are of
\* different codes, and there are never more tokens than codes issued.
C18_TokensFromCodes ==
    [][/\ access_tokens' # access_tokens =>
            /\ cur.kind = "token" /\ cur.pc = "mint"
            /\ cur.stored # <<>>
            /\ cur.form.code \in DOMAIN issued
            /\ cur.form.code \notin DOMAIN auth_codes'
            /\ cur'.pc = "done" /\ cur'.response.status = 200
            /\ cur'.response.access_token \notin access_tokens
            /\ access_tokens' = access_tokens \cup {cur'.response.access_token}
            /\ minted' = minted \cup {<<cur.form.code, cur'.response.access_token>>}
       /\ TokensTraceToCodes']_vars

\* the one token of the store is that of an exchange, and an /authorize
\* request after it has been refused
C18_Witness ==
    /\ Cardinality(access_tokens) = 1
    /\ Cardinality(minted) = 1
    /\ cur.kind = "authorize" /\ cur.pc = "done"
    /\ cur.response.status = 403

\* C19: the record /authorize stores has the configured client_id, an
\* expires_at 300 after the time of the request, and the redirect_uri,
\* code_challenge and code_challenge_method of the request, "plain" for a
\* method the request left out; no step changes a record that stays in the
\* Code Store; only /authorize adds a record, only /token and the sweeper
\* remove one.
C19_RecordInvariant ==
    [][/\ (AuthorizeStep /\ cur'.code # None) =>
            LET r == auth_codes'[cur'.code]
                q == cur'.query
            IN  /\ r.client_id = config.client_id
                /\ r.expires_at = now + 300
                /\ r.redirect_uri = q.redirect_uri
                /\ r.code_challenge = q.code_challenge
                /\ r.code_challenge_method =
                       IF q.code_challenge_method = None THEN Plain
                       ELSE q.code_challenge_method
       /\ \A c \in DOMAIN auth_codes \cap DOMAIN auth_codes' :
            auth_codes'[c] = auth_codes[c]
       /\ DOMAIN auth_codes' \ DOMAIN auth_codes # {} => AuthorizeStep
       /\ DOMAIN auth_codes \ DOMAIN auth_codes' # {} =>
            \/ cur.kind = "token" /\ cur.pc \in {"pop", "pop_fail"} /\ cur' # cur
            \/ sw.pc = "pop" /\ sw' # sw
       /\ \A c \in DOMAIN auth_codes' :
            /\ auth_codes'[c].client_id = config.client_id
            /\ auth_codes'[c] = issued'[c]]_vars

\* a code issued by a request without a method is in the Code Store as it
\* was stored, after a /token request for it has been refused
C19_Witness ==
    /\ TokenDone
    /\ cur.response.status = 401
    /\ client.pkce[2] = None
    /\ cur.form.code \in DOMAIN auth_codes
    /\ auth_codes[cur.form.code].code_challenge_method = Plain
    /\ auth_codes[cur.form.code].expires_at = 300
    /\ now = 300

SearchDone == cur.kind = "search_x" /\ cur.pc = "done"

Called(fn) == \E i \in 1..Len(cur.calls) : cur.calls[i] = fn

\* a source has yielded a result: Bird one with items or tweets, xAI any
BirdYielded == cur.bird_result # <<>> /\ HasPosts(cur.bird_result[1])
XaiYielded == cur.xai_result # <<>>

\* C20: search_x turns to Bird before anything else; it turns to xAI only
\* when Bird has not returned a result with items or tweets; whatever a source
\* raises, the call returns; and when neither source has yielded a result, it
\* returns a JSON object whose only field is error, which names the failure
\* of Bird and the failure of xAI.
C20_SearchFallbackOrder ==
    cur.kind = "search_x" =>
        /\ cur.calls # <<>> => cur.calls[1] = "get_bird_status"
        /\ (cur.pc \in {"xai_key", "xai_model", "xai_search", "fail"}
            \/ Called("select_xai_model") \/ Called("xai_search"))
           => /\ Called("get_bird_status")
              /\ ~BirdYielded
        /\ SearchDone =>
            /\ cur.returned # <<>>
            /\ BirdYielded => cur.returned[1] = cur.bird_result[1]
            /\ XaiYielded => cur.returned[1] = cur.xai_result[1]
            /\ (~BirdYielded /\ ~XaiYielded) =>
                /\ DOMAIN cur.returned[1] = {"error"}
                /\ cur.bird_error # None
                /\ cur.xai_error # None
                /\ cur.returned[1].error
                       = BirdPrefix \o cur.bird_error \o XaiPrefix \o cur.xai_error

====
